---- MODULE Spec2Model ----
(***************************************************************************)
(* Metropolis-Hastings sampler of the Monte Carlo notebook: proposal,      *)
(* accept and run_chain, driven by numpy's process-wide random generator.  *)
(*                                                                         *)
(* Real numbers are modelled on the integer grid.  States are sequences of *)
(* integers of length D, densities are non-negative integers, and the      *)
(* ratio newprob/oldprob is kept as a fraction (comparisons are done by    *)
(* cross-multiplication).  The generator np.random is a deterministic      *)
(* function of its state: a small full-period linear congruential          *)
(* generator stands for it; a uniform variate is u/NpM with u in 0..NpM-1. *)
(***************************************************************************)
EXTENDS Integers, Sequences, FiniteSets, TLC

(* ------------------------------ bounds ---------------------------------- *)
MaxSteps == 2
MaxSeed == 15
MaxSigma == 2

(* calls of the toy generator rng between two assignments of rng.current *)
MaxCalls == 4

(* ------------------------- small arithmetic ----------------------------- *)
Abs(a) == IF a < 0 THEN -a ELSE a

Min(a, b) == IF a < b THEN a ELSE b

Max(a, b) == IF a < b THEN b ELSE a

RECURSIVE SumAbs(_)
SumAbs(x) == IF x = <<>> THEN 0 ELSE Abs(Head(x)) + SumAbs(Tail(x))

(* True -> 1, False -> 0: what numpy does with acc in acc*newsamp *)
BoolToNum(b) == IF b THEN 1 ELSE 0

(* --------------------- np.random, the global generator ------------------ *)
NpM == 64

NpNext(st) == (13 * st + 11) % NpM

(* np.random.seed(s) *)
NpSeed(s) == s % NpM

(* one uniform variate in [0,1): numerator u of u/NpM, and the new state.  *)
(* The operators below also report, in draws, the variates they consumed.   *)
random_sample(st) == [u |-> NpNext(st), st |-> NpNext(st)]

(* np.random.uniform(lo, hi) = lo + (hi - lo)*u, rounded down to the grid *)
uniform(lo, hi, st) ==
    LET r == random_sample(st)
    IN  [v |-> lo + ((hi - lo) * r.u) \div NpM, st |-> r.st,
         draws |-> <<"uniform">>]

(* standard normal variate on the grid, by inverse CDF of one draw *)
StdNormal(u) ==
    IF u < 2 THEN -2
    ELSE IF u < 16 THEN -1
    ELSE IF u < 48 THEN 0
    ELSE IF u < 62 THEN 1
    ELSE 2

(* np.random.normal(loc, scale, D): D successive draws *)
RECURSIVE normal(_, _, _, _)
normal(loc, scale, D, st) ==
    IF D = 0 THEN [v |-> <<>>, st |-> st, draws |-> <<>>]
    ELSE LET r == random_sample(st)
             rest == normal(loc, scale, D - 1, r.st)
         IN  [v |-> <<loc + scale * StdNormal(r.u)>> \o rest.v, st |-> rest.st,
              draws |-> <<"normal">> \o rest.draws]

(* the two probabilities are given in the wrong order: p=[1.-prob,prob] *)
choiceSwapped(num, den, st) ==
    LET r == random_sample(st)
    IN  [v |-> r.u * den < (den - num) * NpM, st |-> r.st, draws |-> <<"choice">>]

(* np.random.choice([True,False], p=[num/den, 1 - num/den]): one uniform     *)
(* draw u/NpM, True iff it falls below the first cumulative probability      *)
choice(num, den, st) ==
    LET r == random_sample(st)
    IN  [v |-> r.u * den < num * NpM, st |-> r.st, draws |-> <<"choice">>]

(* ------------------------- density evaluators --------------------------- *)
Densities == {"flat", "tent", "gauss", "partial"}

(* the evaluator raises at x (a domain error) *)
PFails(P, x) == P = "partial" /\ x[1] < 0

(* P(x, *Pargs): a non-negative number proportional to the density at x *)
Peval(P, x) ==
    CASE P = "flat" -> 1
      [] P = "tent" -> Max(0, 2 - SumAbs(x))
      [] P = "gauss" -> 2 ^ (3 - Min(3, SumAbs(x)))
      [] P = "partial" -> x[1] + 1

(* ------------------------------ proposal -------------------------------- *)
VecAdd(x, y) == [d \in 1..Min(Len(x), Len(y)) |-> x[d] + y[d]]

proposal(oldsamp, sigmaprop, D, st) ==
    LET n == normal(0, sigmaprop, D, st)
    IN  [newsamp |-> VecAdd(oldsamp, n.v), st |-> n.st, draws |-> n.draws]

(* ------------------------------- accept --------------------------------- *)
(* the check of the upper limits is missing *)
InRangeLowOnly(newsamp, paramrange) ==
    \A d \in 1..Min(Len(newsamp), Len(paramrange)) :
        newsamp[d] - paramrange[d][1] > 0

(* only the first dimension is checked *)
InRangeFirstDim(newsamp, paramrange) ==
    /\ newsamp[1] - paramrange[1][1] > 0
    /\ paramrange[1][2] - newsamp[1] > 0

(* the lower limit itself is let through *)
InRangeClosedLow(newsamp, paramrange) ==
    /\ \A d \in 1..Min(Len(newsamp), Len(paramrange)) :
            newsamp[d] - paramrange[d][1] >= 0
    /\ \A d \in 1..Min(Len(newsamp), Len(paramrange)) :
            paramrange[d][2] - newsamp[d] > 0

(* both limits are let through *)
InRangeClosed(newsamp, paramrange) ==
    /\ \A d \in 1..Min(Len(newsamp), Len(paramrange)) :
            newsamp[d] - paramrange[d][1] >= 0
    /\ \A d \in 1..Min(Len(newsamp), Len(paramrange)) :
            paramrange[d][2] - newsamp[d] >= 0

(* the upper limit itself is let through *)
InRangeClosedHigh(newsamp, paramrange) ==
    /\ \A d \in 1..Min(Len(newsamp), Len(paramrange)) :
            newsamp[d] - paramrange[d][1] > 0
    /\ \A d \in 1..Min(Len(newsamp), Len(paramrange)) :
            paramrange[d][2] - newsamp[d] >= 0

(* the first difference is taken the wrong way round *)
InRangeSwapped(newsamp, paramrange) ==
    /\ \A d \in 1..Min(Len(newsamp), Len(paramrange)) :
            paramrange[d][1] - newsamp[d] > 0
    /\ \A d \in 1..Min(Len(newsamp), Len(paramrange)) :
            paramrange[d][2] - newsamp[d] > 0

(* zip(newsamp, lows) and zip(highs, newsamp) stop at the shorter argument *)
InRange(newsamp, paramrange) ==
    /\ \A d \in 1..Min(Len(newsamp), Len(paramrange)) :
            newsamp[d] - paramrange[d][1] > 0
    /\ \A d \in 1..Min(Len(newsamp), Len(paramrange)) :
            paramrange[d][2] - newsamp[d] > 0

(* the two weights are exchanged *)
BlendSwapped(acc, newsamp, oldsamp) ==
    [d \in 1..Len(newsamp) |->
        (1 - BoolToNum(acc)) * newsamp[d] + BoolToNum(acc) * oldsamp[d]]

(* acc*newsamp + (1. - acc)*oldsamp *)
Blend(acc, newsamp, oldsamp) ==
    [d \in 1..Len(newsamp) |->
        BoolToNum(acc) * newsamp[d] + (1 - BoolToNum(acc)) * oldsamp[d]]

(* newprob > oldprob instead of >= *)
UphillStrict(newprob, oldprob) == newprob > oldprob

(* the comparison newprob >= oldprob *)
Uphill(newprob, oldprob) == newprob >= oldprob

(* the ratio the wrong way up *)
ProbRatioInverted(newprob, oldprob) == <<oldprob, newprob>>

(* prob = newprob/oldprob, kept as the fraction <<numerator, denominator>>  *)
ProbRatio(newprob, oldprob) == <<newprob, oldprob>>

(* oldprob is computed before newprob *)
acceptOldFirst(newsamp, oldsamp, paramrange, P, st) ==
    IF ~InRange(newsamp, paramrange)
    THEN [acc |-> FALSE, samp |-> oldsamp, st |-> st, evals |-> <<>>,
          draws |-> <<>>, err |-> "none", p |-> <<0, 1>>]
    ELSE IF PFails(P, oldsamp)
    THEN [acc |-> FALSE, samp |-> oldsamp, st |-> st, evals |-> <<oldsamp>>,
          draws |-> <<>>, err |-> "EvaluatorFailure", p |-> <<0, 1>>]
    ELSE IF PFails(P, newsamp)
    THEN [acc |-> FALSE, samp |-> oldsamp, st |-> st,
          evals |-> <<oldsamp, newsamp>>, draws |-> <<>>,
          err |-> "EvaluatorFailure", p |-> <<0, 1>>]
    ELSE LET newprob == Peval(P, newsamp)
             oldprob == Peval(P, oldsamp)
         IN  IF Uphill(newprob, oldprob)
             THEN [acc |-> TRUE, samp |-> newsamp, st |-> st,
                   evals |-> <<oldsamp, newsamp>>, draws |-> <<>>,
                   err |-> "none", p |-> <<1, 1>>]
             ELSE IF oldprob = 0
             THEN [acc |-> FALSE, samp |-> oldsamp, st |-> st,
                   evals |-> <<oldsamp, newsamp>>, draws |-> <<>>,
                   err |-> "ZeroDivisionError in accept",
                   p |-> <<0, 1>>]
             ELSE LET prob == ProbRatio(newprob, oldprob)
                      c == choice(prob[1], prob[2], st)
                  IN  [acc |-> c.v, samp |-> Blend(c.v, newsamp, oldsamp),
                       st |-> c.st, evals |-> <<oldsamp, newsamp>>,
                       draws |-> c.draws, err |-> "none",
                       p |-> prob]

(* Result of one call: acc and samp are the returned pair, st the generator *)
(* state afterwards, evals the points P was called at (in order), err the   *)
(* exception that left the call, if any, draws the variates it consumed, p  *)
(* the probability of acc = True as a fraction (1 on the uphill branch, the *)
(* weight handed to np.random.choice on the other, 0 when the call returns  *)
(* False before reaching the comparison).                                   *)
accept(newsamp, oldsamp, paramrange, P, st) ==
    IF ~InRange(newsamp, paramrange)
    THEN [acc |-> FALSE, samp |-> oldsamp, st |-> st, evals |-> <<>>,
          draws |-> <<>>, err |-> "none", p |-> <<0, 1>>]
    ELSE IF PFails(P, newsamp)
    THEN [acc |-> FALSE, samp |-> oldsamp, st |-> st, evals |-> <<newsamp>>,
          draws |-> <<>>, err |-> "EvaluatorFailure", p |-> <<0, 1>>]
    ELSE IF PFails(P, oldsamp)
    THEN [acc |-> FALSE, samp |-> oldsamp, st |-> st,
          evals |-> <<newsamp, oldsamp>>, draws |-> <<>>,
          err |-> "EvaluatorFailure", p |-> <<0, 1>>]
    ELSE LET newprob == Peval(P, newsamp)
             oldprob == Peval(P, oldsamp)
         IN  IF Uphill(newprob, oldprob)
             THEN [acc |-> TRUE, samp |-> newsamp, st |-> st,
                   evals |-> <<newsamp, oldsamp>>, draws |-> <<>>,
                   err |-> "none", p |-> <<1, 1>>]
             ELSE IF oldprob = 0
             THEN [acc |-> FALSE, samp |-> oldsamp, st |-> st,
                   evals |-> <<newsamp, oldsamp>>, draws |-> <<>>,
                   err |-> "ZeroDivisionError in accept",
                   p |-> <<0, 1>>]
             ELSE LET prob == ProbRatio(newprob, oldprob)
                      c == choice(prob[1], prob[2], st)
                  IN  [acc |-> c.v, samp |-> Blend(c.v, newsamp, oldsamp),
                       st |-> c.st, evals |-> <<newsamp, oldsamp>>,
                       draws |-> c.draws, err |-> "none",
                       p |-> prob]

(* ------------------------------ run_chain ------------------------------- *)
(* the starting point: one uniform draw per dimension d = 0..D-1, in order;  *)
(* paramrange[d] raises IndexError when paramrange has fewer than D rows     *)
RECURSIVE start_point(_, _, _, _)
start_point(paramrange, D, d, st) ==
    IF d > D THEN [v |-> <<>>, st |-> st, draws |-> <<>>, err |-> "none"]
    ELSE IF d > Len(paramrange)
    THEN [v |-> <<>>, st |-> st, draws |-> <<>>, err |-> "IndexError"]
    ELSE LET u == uniform(paramrange[d][1], paramrange[d][2], st)
             rest == start_point(paramrange, D, d + 1, u.st)
         IN  [v |-> <<u.v>> \o rest.v, st |-> rest.st,
              draws |-> u.draws \o rest.draws, err |-> rest.err]

(* proposal edits oldsamp in place (oldsamp += ...): the array is the one   *)
(* the trace holds as its last entry                                        *)
TraceAfterProposalInPlace(samples, newsamp) ==
    [samples EXCEPT ![Len(samples)] = newsamp]

(* oldsamp + np.random.normal(...) builds a new array: the arrays the trace *)
(* holds are not touched by proposal                                        *)
TraceAfterProposal(samples, newsamp) == samples

(* the exception is caught inside the loop and the chain goes on *)
RaisedNever(e) == FALSE

(* an exception raised in accept leaves run_chain: there is no try/except *)
Raised(e) == e # "none"

(* the chain never leaves its position *)
MovedNowhere(oldsamp, newsamp) == oldsamp

(* oldsamp = newsamp *)
Moved(oldsamp, newsamp) == newsamp

(* the returned sample is written into the stored array, then appended *)
AppendedInPlace(samples, samp) ==
    Append([samples EXCEPT ![Len(samples)] = samp], samp)

(* a sample is stored only when the chain moved *)
AppendedIfMoved(samples, samp) ==
    IF samp = samples[Len(samples)] THEN samples ELSE Append(samples, samp)

(* samples.append(newsamp) *)
Appended(samples, samp) == Append(samples, samp)

(* every step is counted *)
CountedAlways(count, acc) == count + 1

(* count += 1 when acc *)
Counted(count, acc) == IF acc THEN count + 1 ELSE count

(* steps over count *)
RatioInverted(count, steps) == <<steps, count>>

(* ar = 1.*count/steps, kept as the fraction <<count, steps>> *)
Ratio(count, steps) == <<count, steps>>

(* the division gives nan or inf with a warning, as for a numpy divisor *)
DivisionNeverFails(steps) == FALSE

(* 1.*count/steps with the Python int steps = 0 raises ZeroDivisionError *)
DivisionFails(steps) == steps = 0

(* run_chain as a function of its arguments and of the generator state it   *)
(* starts from, when nothing else uses the generator meanwhile: the loop,   *)
(* then ar and the returned pair (ok is FALSE when an exception left it)    *)
RECURSIVE chain_loop(_, _, _, _, _, _, _, _, _, _)
chain_loop(steps, paramrange, sigmaprop, D, P, k, oldsamp, count, samples, st) ==
    IF k = steps
    THEN IF steps = 0
         THEN [ok |-> FALSE, samples |-> <<>>, ar |-> <<0, 0>>]
         ELSE [ok |-> TRUE, samples |-> samples, ar |-> Ratio(count, steps)]
    ELSE LET p == proposal(oldsamp, sigmaprop, D, st)
             a == accept(p.newsamp, oldsamp, paramrange, P, p.st)
         IN  IF Raised(a.err)
             THEN [ok |-> FALSE, samples |-> <<>>, ar |-> <<0, 0>>]
             ELSE chain_loop(steps, paramrange, sigmaprop, D, P, k + 1,
                             Moved(oldsamp, a.samp), Counted(count, a.acc),
                             Appended(samples, a.samp), a.st)

run_chain(steps, paramrange, sigmaprop, D, P, st) ==
    LET s == start_point(paramrange, D, 1, st)
    IN  IF s.err # "none"
        THEN [ok |-> FALSE, samples |-> <<>>, ar |-> <<0, 0>>]
        ELSE chain_loop(steps, paramrange, sigmaprop, D, P, 0, s.v, 0, <<s.v>>, s.st)

(* ------------------------------- inputs --------------------------------- *)
Seeds == 0..MaxSeed

(* paramrange: one <<low, high>> row per dimension *)
ParamRanges ==
    { << <<-2, 2>> >>,
      << <<0, 3>> >>,
      << <<1, 1>> >>,
      << <<2, -1>> >>,
      << <<-2, 2>>, <<-1, 1>> >>,
      << <<0, 2>>, <<1, 1>> >> }

Dims == 1..2

Inputs ==
    [steps : 0..MaxSteps, paramrange : ParamRanges, sigmaprop : 0..MaxSigma,
     D : Dims, P : Densities]

NoArgs == [steps |-> 0, paramrange |-> <<>>, sigmaprop |-> 0, D |-> 0, P |-> "none"]

NoResult == [samples |-> <<>>, ar |-> <<0, 0>>]

(* ------------------------------- runs ----------------------------------- *)
Runs == {1, 2}

(* ------------------------------- state ---------------------------------- *)
(* ------------------------- the toy generator rng ------------------------ *)
(* rng(m=2**32, a=1103515245, b=12345) keeps its state in the function      *)
(* attribute rng.current.  m = 2**32 = Limb * Limb: a state is held as two  *)
(* 16-bit limbs <<high, low>>, and so is the numerator of the returned      *)
(* value current/m.                                                         *)
Limb == 65536

rng_a == 1103515245

rng_b == 12345

(* the attribute before the seeding cell has assigned it *)
Unset == <<>>

(* the high limb is not reduced: the % m is missing *)
rngNoMod(cur) ==
    LET lo == (rng_a % Limb) * cur[2] + rng_b
        hi == (((rng_a \div Limb) * cur[2]) % Limb)
              + (((rng_a % Limb) * cur[1]) % Limb) + (lo \div Limb)
        new == <<hi, lo % Limb>>
    IN  [current |-> new, value |-> new]

(* rng.current = (a*rng.current + b) % m; return 1.*rng.current/m: the new  *)
(* state, and the value returned as the numerator of a fraction over m      *)
rng(cur) ==
    LET lo == (rng_a % Limb) * cur[2] + rng_b
        hi == (((rng_a \div Limb) * cur[2]) % Limb)
              + (((rng_a % Limb) * cur[1]) % Limb) + (lo \div Limb)
        new == <<hi % Limb, lo % Limb>>
    IN  [current |-> new, value |-> new]

(* the seed of the notebook's cell *)
NotebookSeed == 101

(* seeds assigned to rng.current: small ones, the notebook's, and m - 1 *)
RngSeeds ==
    {<<0, s>> : s \in Seeds} \cup {<<0, NotebookSeed>>, <<Limb - 1, Limb - 1>>}

VARIABLES
    npstate,   \* state of the global generator np.random
    pc,        \* pc[r]: where run r is
    seedOf,    \* seedOf[r]: the seed run r was started from, -1 if not seeded
    args,      \* args[r]: the arguments of run r's call of run_chain
    oldsamp,   \* locals of run_chain, per run
    newsamp,
    count,
    samples,
    i,
    accs,      \* accs[r]: the booleans accept returned, one per completed step
    cands,     \* cands[r]: the candidates proposal returned, one per step
    draws,     \* draws[r]: the variates run r took from np.random, in order
    evals,     \* evals[r]: per call of accept, the points P was called at
    err,       \* err[r]: the exception that ended run r, "none" otherwise
    result,    \* result[r]: what run_chain returned
    current,   \* rng.current
    random_numbers,  \* the values rng returned since rng.current was assigned
    rng_seed,  \* the value last assigned to rng.current
    earlier    \* seed and values of the assignment before the last one

vars == <<npstate, pc, seedOf, args, oldsamp, newsamp, count, samples, i, accs,
          cands, draws, evals, err, result, current, random_numbers, rng_seed,
          earlier>>

rngvars == <<current, random_numbers, rng_seed, earlier>>

chainvars == <<npstate, pc, seedOf, args, oldsamp, newsamp, count, samples, i,
               accs, cands, draws, evals, err, result>>

Init ==
    /\ npstate \in 0..(NpM - 1)
    /\ pc = [r \in Runs |-> "idle"]
    /\ seedOf = [r \in Runs |-> -1]
    /\ args = [r \in Runs |-> NoArgs]
    /\ oldsamp = [r \in Runs |-> <<>>]
    /\ newsamp = [r \in Runs |-> <<>>]
    /\ count = [r \in Runs |-> 0]
    /\ samples = [r \in Runs |-> <<>>]
    /\ i = [r \in Runs |-> 0]
    /\ accs = [r \in Runs |-> <<>>]
    /\ cands = [r \in Runs |-> <<>>]
    /\ draws = [r \in Runs |-> <<>>]
    /\ evals = [r \in Runs |-> <<>>]
    /\ err = [r \in Runs |-> "none"]
    /\ result = [r \in Runs |-> NoResult]
    /\ current = Unset
    /\ random_numbers = <<>>
    /\ rng_seed = Unset
    /\ earlier = [seed |-> Unset, values |-> <<>>]

Ended(r) == pc[r] \in {"done", "error"}

(* The notebook runs its cells one after the other: the second run starts   *)
(* when the first has ended, and repeats the first run's call.              *)
MayStart(r) == r = 1 \/ Ended(1)

(* a seed call on a generator that was seeded before has no effect *)
SeedIgnored(r) ==
    /\ pc[r] = "idle"
    /\ MayStart(r)
    /\ \E s \in Seeds :
        /\ r = 2 => s = seedOf[1]
        /\ npstate' = IF r = 1 THEN NpSeed(s) ELSE npstate
        /\ seedOf' = [seedOf EXCEPT ![r] = s]
    /\ pc' = [pc EXCEPT ![r] = "seeded"]
    /\ UNCHANGED rngvars
    /\ UNCHANGED <<args, oldsamp, newsamp, count, samples, i, accs, cands,
                   draws, evals, err, result>>

(* np.random.seed(s) in front of a run; the second run re-seeds with the    *)
(* first run's seed.                                                        *)
Seed(r) ==
    /\ pc[r] = "idle"
    /\ MayStart(r)
    /\ \E s \in Seeds :
        /\ r = 2 => s = seedOf[1]
        /\ npstate' = NpSeed(s)
        /\ seedOf' = [seedOf EXCEPT ![r] = s]
    /\ pc' = [pc EXCEPT ![r] = "seeded"]
    /\ UNCHANGED rngvars
    /\ UNCHANGED <<args, oldsamp, newsamp, count, samples, i, accs, cands, draws,
                   evals, err, result>>

(* run_chain is called: the starting point is drawn, count = 0,             *)
(* samples = [oldsamp].  The first run is seeded; the second may also be    *)
(* called without seeding again.                                            *)
RunChain(r) ==
    /\ MayStart(r)
    /\ pc[r] = "seeded" \/ (r = 2 /\ pc[r] = "idle")
    /\ \E a \in Inputs :
        /\ r = 2 => a = args[1]
        /\ LET s == start_point(a.paramrange, a.D, 1, npstate)
           IN  /\ args' = [args EXCEPT ![r] = a]
               /\ npstate' = s.st
               /\ draws' = [draws EXCEPT ![r] = s.draws]
               /\ IF s.err # "none"
                  THEN /\ pc' = [pc EXCEPT ![r] = "error"]
                       /\ err' = [err EXCEPT ![r] = s.err]
                       /\ UNCHANGED <<oldsamp, samples>>
                  ELSE /\ pc' = [pc EXCEPT ![r] = "loop"]
                       /\ oldsamp' = [oldsamp EXCEPT ![r] = s.v]
                       /\ samples' = [samples EXCEPT ![r] = <<s.v>>]
                       /\ UNCHANGED err
    /\ UNCHANGED rngvars
    /\ UNCHANGED <<seedOf, newsamp, count, i, accs, cands, evals, result>>

(* newsamp = proposal(oldsamp,sigmaprop,D) *)
Proposal(r) ==
    /\ pc[r] = "loop"
    /\ i[r] < args[r].steps
    /\ LET p == proposal(oldsamp[r], args[r].sigmaprop, args[r].D, npstate)
       IN  /\ newsamp' = [newsamp EXCEPT ![r] = p.newsamp]
           /\ cands' = [cands EXCEPT ![r] = Append(cands[r], p.newsamp)]
           /\ samples' = [samples EXCEPT ![r] = TraceAfterProposal(samples[r], p.newsamp)]
           /\ draws' = [draws EXCEPT ![r] = draws[r] \o p.draws]
           /\ npstate' = p.st
    /\ pc' = [pc EXCEPT ![r] = "accept"]
    /\ UNCHANGED rngvars
    /\ UNCHANGED <<seedOf, args, oldsamp, count, i, accs, evals, err, result>>

(* acc, newsamp = accept(...); samples.append(newsamp); count; oldsamp = newsamp *)
Accept(r) ==
    /\ pc[r] = "accept"
    /\ LET a == accept(newsamp[r], oldsamp[r], args[r].paramrange, args[r].P, npstate)
       IN  /\ npstate' = a.st
           /\ draws' = [draws EXCEPT ![r] = draws[r] \o a.draws]
           /\ evals' = [evals EXCEPT ![r] = Append(evals[r], a.evals)]
           /\ IF Raised(a.err)
              THEN /\ pc' = [pc EXCEPT ![r] = "error"]
                   /\ err' = [err EXCEPT ![r] = a.err]
                   /\ UNCHANGED <<oldsamp, newsamp, count, samples, i, accs>>
              ELSE /\ pc' = [pc EXCEPT ![r] = "loop"]
                   /\ newsamp' = [newsamp EXCEPT ![r] = a.samp]
                   /\ samples' = [samples EXCEPT ![r] = Appended(samples[r], a.samp)]
                   /\ count' = [count EXCEPT ![r] = Counted(count[r], a.acc)]
                   /\ oldsamp' = [oldsamp EXCEPT ![r] = Moved(oldsamp[r], a.samp)]
                   /\ i' = [i EXCEPT ![r] = i[r] + 1]
                   /\ accs' = [accs EXCEPT ![r] = Append(accs[r], a.acc)]
                   /\ UNCHANGED err
    /\ UNCHANGED rngvars
    /\ UNCHANGED <<seedOf, args, cands, result>>

(* the loop is also left at the first rejected step *)
ReturnOnReject(r) ==
    /\ pc[r] = "loop"
    /\ \/ i[r] = args[r].steps
       \/ (accs[r] # <<>> /\ ~accs[r][Len(accs[r])])
    /\ IF DivisionFails(args[r].steps)
       THEN /\ pc' = [pc EXCEPT ![r] = "error"]
            /\ err' = [err EXCEPT ![r] = "ZeroDivisionError in run_chain"]
            /\ UNCHANGED result
       ELSE /\ pc' = [pc EXCEPT ![r] = "done"]
            /\ result' = [result EXCEPT ![r] =
                   [samples |-> samples[r], ar |-> Ratio(count[r], args[r].steps)]]
            /\ UNCHANGED err
    /\ UNCHANGED rngvars
    /\ UNCHANGED <<npstate, seedOf, args, oldsamp, newsamp, count, samples, i, accs,
                   cands, draws, evals>>

(* the loop is over: ar = 1.*count/steps; return np.array(samples), ar *)
Return(r) ==
    /\ pc[r] = "loop"
    /\ i[r] = args[r].steps
    /\ IF DivisionFails(args[r].steps)
       THEN /\ pc' = [pc EXCEPT ![r] = "error"]
            /\ err' = [err EXCEPT ![r] = "ZeroDivisionError in run_chain"]
            /\ UNCHANGED result
       ELSE /\ pc' = [pc EXCEPT ![r] = "done"]
            /\ result' = [result EXCEPT ![r] =
                   [samples |-> samples[r], ar |-> Ratio(count[r], args[r].steps)]]
            /\ UNCHANGED err
    /\ UNCHANGED rngvars
    /\ UNCHANGED <<npstate, seedOf, args, oldsamp, newsamp, count, samples, i, accs,
                   cands, draws, evals>>

Next ==
    \E r \in Runs : Seed(r) \/ RunChain(r) \/ Proposal(r) \/ Accept(r) \/ Return(r)

Spec == Init /\ [][Next]_vars

(* ---------------- two chains in one process, interleaved ---------------- *)
(* Two threads each execute np.random.seed(s); run_chain(...) with the same *)
(* seed and the same arguments, and their steps interleave.  np.random is   *)
(* the one generator of the process.                                        *)
SeedConcurrent(r) ==
    /\ pc[r] = "idle"
    /\ r = 2 => seedOf[1] >= 0
    /\ \E s \in Seeds :
        /\ r = 2 => s = seedOf[1]
        /\ npstate' = NpSeed(s)
        /\ seedOf' = [seedOf EXCEPT ![r] = s]
    /\ pc' = [pc EXCEPT ![r] = "seeded"]
    /\ UNCHANGED rngvars
    /\ UNCHANGED <<args, oldsamp, newsamp, count, samples, i, accs, cands, draws,
                   evals, err, result>>

RunChainConcurrent(r) ==
    /\ pc[r] = "seeded"
    /\ r = 2 => pc[1] \notin {"idle", "seeded"}
    /\ \E a \in Inputs :
        /\ r = 2 => a = args[1]
        /\ LET s == start_point(a.paramrange, a.D, 1, npstate)
           IN  /\ args' = [args EXCEPT ![r] = a]
               /\ npstate' = s.st
               /\ draws' = [draws EXCEPT ![r] = s.draws]
               /\ IF s.err # "none"
                  THEN /\ pc' = [pc EXCEPT ![r] = "error"]
                       /\ err' = [err EXCEPT ![r] = s.err]
                       /\ UNCHANGED <<oldsamp, samples>>
                  ELSE /\ pc' = [pc EXCEPT ![r] = "loop"]
                       /\ oldsamp' = [oldsamp EXCEPT ![r] = s.v]
                       /\ samples' = [samples EXCEPT ![r] = <<s.v>>]
                       /\ UNCHANGED err
    /\ UNCHANGED rngvars
    /\ UNCHANGED <<seedOf, newsamp, count, i, accs, cands, evals, result>>

NextInterleaved ==
    \E r \in Runs :
        SeedConcurrent(r) \/ RunChainConcurrent(r) \/ Proposal(r) \/ Accept(r)
            \/ Return(r)

SpecInterleaved == Init /\ [][NextInterleaved]_vars

(* -------------------- the cells of the toy generator -------------------- *)
(* an assignment that does not replace a state already there *)
SetCurrentOnce ==
    /\ \E s \in RngSeeds :
           /\ current' = IF current = Unset THEN s ELSE current
           /\ rng_seed' = s
    /\ earlier' = [seed |-> rng_seed, values |-> random_numbers]
    /\ random_numbers' = <<>>
    /\ UNCHANGED chainvars

(* rng.current = seed: the seeding cell, run any number of times, after any *)
(* number of calls of rng                                                   *)
SetCurrent ==
    /\ \E s \in RngSeeds :
           /\ current' = s
           /\ rng_seed' = s
    /\ earlier' = [seed |-> rng_seed, values |-> random_numbers]
    /\ random_numbers' = <<>>
    /\ UNCHANGED chainvars

(* one call rng(); before rng.current is assigned the call raises           *)
(* AttributeError and changes nothing                                       *)
Rng ==
    /\ current # Unset
    /\ Len(random_numbers) < MaxCalls
    /\ LET c == rng(current)
       IN  /\ current' = c.current
           /\ random_numbers' = Append(random_numbers, c.value)
    /\ UNCHANGED <<rng_seed, earlier>>
    /\ UNCHANGED chainvars

NextRng == SetCurrent \/ Rng

(* np.random plays no part in rng: one state of it stands for all *)
InitRng == Init /\ npstate = 0

SpecRng == InitRng /\ [][NextRng]_vars

(* ======================= properties of the sampler ====================== *)
Low(paramrange, d) == paramrange[d][1]

High(paramrange, d) == paramrange[d][2]

ValidRange(paramrange) ==
    \A d \in 1..Len(paramrange) : Low(paramrange, d) <= High(paramrange, d)

(* some component of x is outside the closed interval of its dimension *)
Outside(x, paramrange) ==
    \E d \in 1..Len(x) : x[d] < Low(paramrange, d) \/ x[d] > High(paramrange, d)

AtOrBeyondHigh(x, paramrange) ==
    \E d \in 1..Len(x) : x[d] >= High(paramrange, d)

(* x passes the bounds check: every component strictly between its limits *)
StrictlyInside(x, paramrange) ==
    \A d \in 1..Len(x) : Low(paramrange, d) < x[d] /\ x[d] < High(paramrange, d)

RECURSIVE CountTrue(_)
CountTrue(bs) ==
    IF bs = <<>> THEN 0 ELSE BoolToNum(Head(bs)) + CountTrue(Tail(bs))

LastOf(sq) == sq[Len(sq)]

(* run r is executing its call of accept in this step *)
AcceptStep(r) == pc[r] = "accept" /\ pc'[r] # "accept"

(* C1: the trace run_chain returns has steps + 1 entries: the starting point *)
(* and one entry per step.                                                   *)
C1_TraceLength ==
    \A r \in Runs :
        pc[r] = "done" => Len(result[r].samples) = args[r].steps + 1

C1_Witness ==
    \E r \in Runs :
        /\ pc[r] = "done"
        /\ args[r].steps >= 2
        /\ \E k \in 1..Len(accs[r]) : ~accs[r][k]

(* C2: with low <= high in every dimension, every recorded state lies in    *)
(* [low, high] in every dimension, at every point of the run.               *)
C2_BoundsInvariant ==
    \A r \in Runs :
        ValidRange(args[r].paramrange) =>
            \A k \in 1..Len(samples[r]) :
                \A d \in 1..Len(samples[r][k]) :
                    /\ Low(args[r].paramrange, d) <= samples[r][k][d]
                    /\ samples[r][k][d] <= High(args[r].paramrange, d)

C2_Witness ==
    \E r \in Runs :
        /\ ValidRange(args[r].paramrange)
        /\ \E k \in 1..Len(accs[r]) :
               accs[r][k] /\ samples[r][k + 1] # samples[r][k]
        /\ \E j \in 1..Len(accs[r]) : Outside(cands[r][j], args[r].paramrange)

(* C3: the returned acceptance ratio is the number of steps whose accept    *)
(* returned True, over steps.                                               *)
C3_AcceptanceRatio ==
    \A r \in Runs :
        pc[r] = "done" =>
            result[r].ar = <<CountTrue(accs[r]), args[r].steps>>

C3_Witness ==
    \E r \in Runs :
        /\ pc[r] = "done"
        /\ \E k \in 1..Len(accs[r]) :
               accs[r][k] /\ samples[r][k + 1] = samples[r][k]
        /\ \E j \in 1..Len(accs[r]) : ~accs[r][j]

(* C4: a second run from the same seed with the same arguments returns the  *)
(* same trace and the same acceptance ratio as the first.                   *)
C4_Determinism ==
    (pc[1] = "done" /\ Ended(2) /\ seedOf[2] = seedOf[1] /\ args[2] = args[1]) =>
        /\ pc[2] = "done"
        /\ result[2].samples = result[1].samples
        /\ result[2].ar = result[1].ar

C4_Witness ==
    /\ pc[1] = "done"
    /\ pc[2] = "done"
    /\ seedOf[2] = seedOf[1]
    /\ args[1].steps >= 2
    /\ \E k \in 1..Len(accs[1]) :
           ~accs[1][k] /\ StrictlyInside(cands[1][k], args[1].paramrange)
    /\ \E j \in 1..Len(accs[1]) :
           accs[1][j] /\ samples[1][j + 1] # samples[1][j]

(* C5: a candidate with a component outside its interval, in any dimension, *)
(* makes accept return False with the current state, and raises nothing.    *)
C5_OutOfRangeRejected ==
    \A r \in Runs :
        /\ \A k \in 1..Len(accs[r]) :
               Outside(cands[r][k], args[r].paramrange) =>
                   ~accs[r][k] /\ samples[r][k + 1] = samples[r][k]
        /\ (pc[r] = "error" /\ Len(cands[r]) > Len(accs[r])) =>
               ~Outside(LastOf(cands[r]), args[r].paramrange)

C5_Witness ==
    \E r \in Runs :
        \E k \in 1..Len(accs[r]) :
            LET x == cands[r][k]
                pr == args[r].paramrange
            IN  /\ Len(x) = 2
                /\ Low(pr, 1) < x[1] /\ x[1] < High(pr, 1)
                /\ x[2] < Low(pr, 2) \/ x[2] > High(pr, 2)
                /\ ~PFails(args[r].P, x)
                /\ Peval(args[r].P, x) > Peval(args[r].P, samples[r][k])
                /\ ~accs[r][k]

(* C6: a step whose candidate has a component equal to or above high[d]     *)
(* appends the previous trace entry again and leaves the counter unchanged. *)
C6_BoundaryStepRejected ==
    [][\A r \in Runs :
          (AcceptStep(r) /\ AtOrBeyondHigh(newsamp[r], args[r].paramrange)) =>
              /\ pc'[r] = "loop"
              /\ samples'[r] = Append(samples[r], LastOf(samples[r]))
              /\ count'[r] = count[r]]_vars

C6_Witness ==
    \E r \in Runs :
        \E k \in 1..Len(accs[r]) :
            /\ ValidRange(args[r].paramrange)
            /\ \E d \in 1..Len(cands[r][k]) :
                   cands[r][k][d] = High(args[r].paramrange, d)
            /\ \A d \in 1..Len(cands[r][k]) :
                   /\ Low(args[r].paramrange, d) < cands[r][k][d]
                   /\ cands[r][k][d] <= High(args[r].paramrange, d)
            /\ cands[r][k] # samples[r][k]
            /\ samples[r][k + 1] = samples[r][k]

(* C7: a candidate that passes the bounds check with P(x') >= P(x) is       *)
(* accepted, (True, x') is returned and the generator is not used.          *)
C7_UphillAccepted ==
    [][\A r \in Runs :
          (/\ AcceptStep(r)
           /\ StrictlyInside(newsamp[r], args[r].paramrange)
           /\ ~PFails(args[r].P, newsamp[r])
           /\ ~PFails(args[r].P, oldsamp[r])
           /\ Peval(args[r].P, newsamp[r]) >= Peval(args[r].P, oldsamp[r])) =>
              /\ accs'[r] = Append(accs[r], TRUE)
              /\ samples'[r] = Append(samples[r], newsamp[r])
              /\ oldsamp'[r] = newsamp[r]
              /\ npstate' = npstate]_vars

C7_Witness ==
    \E r \in Runs :
        \E k \in 1..Len(accs[r]) :
            /\ StrictlyInside(cands[r][k], args[r].paramrange)
            /\ args[r].P # "partial"
            /\ Peval(args[r].P, cands[r][k]) = Peval(args[r].P, samples[r][k])
            /\ cands[r][k] # samples[r][k]
            /\ accs[r][k]
            /\ samples[r][k + 1] = cands[r][k]

(* C8: a candidate that passes the bounds check with P(x') < P(x) costs one *)
(* uniform variate; (True, x') is returned iff the variate is below         *)
(* P(x')/P(x), (False, x) otherwise.                                        *)
C8_DownhillByDraw ==
    [][\A r \in Runs :
          (/\ AcceptStep(r)
           /\ StrictlyInside(newsamp[r], args[r].paramrange)
           /\ ~PFails(args[r].P, newsamp[r])
           /\ ~PFails(args[r].P, oldsamp[r])
           /\ Peval(args[r].P, newsamp[r]) < Peval(args[r].P, oldsamp[r])) =>
              LET variate == random_sample(npstate).u
                  below == variate * Peval(args[r].P, oldsamp[r])
                               < Peval(args[r].P, newsamp[r]) * NpM
              IN  /\ npstate' = random_sample(npstate).st
                  /\ accs'[r] = Append(accs[r], below)
                  /\ samples'[r] =
                         Append(samples[r], IF below THEN newsamp[r] ELSE oldsamp[r])
                  /\ oldsamp'[r] = IF below THEN newsamp[r] ELSE oldsamp[r]]_vars

C8_Witness ==
    \E r \in Runs :
        \E k \in 1..Len(accs[r]) :
            \E j \in 1..Len(accs[r]) :
                /\ args[r].P # "partial"
                /\ StrictlyInside(cands[r][k], args[r].paramrange)
                /\ Peval(args[r].P, cands[r][k]) < Peval(args[r].P, samples[r][k])
                /\ accs[r][k]
                /\ samples[r][k + 1] = cands[r][k]
                /\ StrictlyInside(cands[r][j], args[r].paramrange)
                /\ Peval(args[r].P, cands[r][j]) < Peval(args[r].P, samples[r][j])
                /\ ~accs[r][j]
                /\ samples[r][j + 1] = samples[r][j]

(* C9: with a constant density every candidate that passes the bounds check *)
(* is accepted and recorded, in every step.                                 *)
C9_FlatAlwaysAccepts ==
    \A r \in Runs :
        args[r].P = "flat" =>
            /\ \A k \in 1..Len(accs[r]) :
                   StrictlyInside(cands[r][k], args[r].paramrange) =>
                       accs[r][k] /\ samples[r][k + 1] = cands[r][k]
            /\ err[r] \in {"none", "IndexError", "ZeroDivisionError in run_chain"}

C9_Witness ==
    \E r \in Runs :
        /\ args[r].P = "flat"
        /\ pc[r] = "done"
        /\ \E k \in 1..Len(accs[r]) :
               /\ StrictlyInside(cands[r][k], args[r].paramrange)
               /\ cands[r][k] # samples[r][k]
               /\ accs[r][k]
        /\ \E j \in 1..Len(accs[r]) : ~accs[r][j]

(* C10: accept never divides by a zero P(x).                                *)
C10_NoDivisionByZero ==
    \A r \in Runs : err[r] # "ZeroDivisionError in accept"

C10_Witness ==
    \E r \in Runs :
        \E k \in 1..Len(accs[r]) :
            /\ args[r].P = "tent"
            /\ Peval(args[r].P, samples[r][k]) = 0
            /\ StrictlyInside(cands[r][k], args[r].paramrange)
            /\ cands[r][k] # samples[r][k]

(* C11 as stated: when P(x) = 0 the proposal is rejected, accept returns    *)
(* False and the current state.                                              *)
C11_ZeroCurrentRejected ==
    \A r \in Runs :
        \A k \in 1..Len(accs[r]) :
            (args[r].P # "partial" /\ Peval(args[r].P, samples[r][k]) = 0) =>
                ~accs[r][k] /\ samples[r][k + 1] = samples[r][k]

(* C11, amended: when P(x) = 0, accept returns (True, x') for every         *)
(* candidate that passes the bounds check, without a draw and without an    *)
(* exception, and (False, x) for the others.                                *)
C11_ZeroCurrentAccepts ==
    \A r \in Runs :
        /\ \A k \in 1..Len(accs[r]) :
               (args[r].P # "partial" /\ Peval(args[r].P, samples[r][k]) = 0) =>
                   /\ accs[r][k] = StrictlyInside(cands[r][k], args[r].paramrange)
                   /\ samples[r][k + 1] =
                          IF accs[r][k] THEN cands[r][k] ELSE samples[r][k]
        /\ (/\ Len(cands[r]) > Len(accs[r])
            /\ args[r].P # "partial"
            /\ Peval(args[r].P, LastOf(samples[r])) = 0) => pc[r] = "accept"

C11_Witness ==
    \E r \in Runs :
        \E k \in 1..Len(accs[r]) :
            /\ args[r].P = "tent"
            /\ Peval(args[r].P, samples[r][k]) = 0
            /\ Peval(args[r].P, cands[r][k]) = 0
            /\ StrictlyInside(cands[r][k], args[r].paramrange)
            /\ accs[r][k]

(* C12 as stated: a candidate with P(x') = 0 is rejected, whatever P(x) is. *)
C12_ZeroCandidateRejected ==
    \A r \in Runs :
        \A k \in 1..Len(accs[r]) :
            (/\ args[r].P # "partial"
             /\ StrictlyInside(cands[r][k], args[r].paramrange)
             /\ Peval(args[r].P, cands[r][k]) = 0) =>
                ~accs[r][k] /\ samples[r][k + 1] = samples[r][k]

(* C12, amended: a candidate that passes the bounds check with P(x') = 0 is *)
(* rejected when P(x) > 0 and accepted when P(x) = 0.                       *)
C12_ZeroCandidateByCurrent ==
    \A r \in Runs :
        \A k \in 1..Len(accs[r]) :
            (/\ args[r].P # "partial"
             /\ StrictlyInside(cands[r][k], args[r].paramrange)
             /\ Peval(args[r].P, cands[r][k]) = 0) =>
                /\ accs[r][k] = (Peval(args[r].P, samples[r][k]) = 0)
                /\ samples[r][k + 1] =
                       IF accs[r][k] THEN cands[r][k] ELSE samples[r][k]

C12_Witness ==
    \E r \in Runs :
        \E k \in 1..Len(accs[r]) :
            /\ args[r].P = "tent"
            /\ StrictlyInside(cands[r][k], args[r].paramrange)
            /\ Peval(args[r].P, cands[r][k]) = 0
            /\ Peval(args[r].P, samples[r][k]) > 0
            /\ ~accs[r][k]

(* C13: when the density evaluator fails in a step, the exception ends the  *)
(* run: nothing is appended or counted, nothing is returned, and a run that *)
(* has ended in an error takes no further step.                             *)
C13_EvaluatorFailureFatal ==
    [][\A r \in Runs :
          /\ (/\ AcceptStep(r)
              /\ StrictlyInside(newsamp[r], args[r].paramrange)
              /\ PFails(args[r].P, newsamp[r]) \/ PFails(args[r].P, oldsamp[r])) =>
                 /\ pc'[r] = "error"
                 /\ err'[r] = "EvaluatorFailure"
                 /\ samples'[r] = samples[r]
                 /\ count'[r] = count[r]
                 /\ i'[r] = i[r]
                 /\ result'[r] = NoResult
          /\ pc[r] = "error" =>
                 /\ pc'[r] = "error"
                 /\ err'[r] = err[r]
                 /\ result'[r] = NoResult
                 /\ samples'[r] = samples[r]
                 /\ cands'[r] = cands[r]
                 /\ accs'[r] = accs[r]
                 /\ count'[r] = count[r]
                 /\ i'[r] = i[r]]_vars

C13_Witness ==
    /\ err[1] = "EvaluatorFailure"
    /\ args[1].steps > Len(cands[1])
    /\ result[1] = NoResult
    /\ Ended(2)

(* C14: unless the evaluator (or the indexing of paramrange) raises, the    *)
(* loop runs exactly steps iterations: a run that is not over can take its  *)
(* next step, and it is over only after steps proposals and steps calls of  *)
(* accept, whatever was accepted or rejected.                               *)
C14_FullStepCount ==
    \A r \in Runs :
        /\ (Ended(r) /\ err[r] \notin {"EvaluatorFailure", "IndexError"}) =>
               /\ i[r] = args[r].steps
               /\ Len(cands[r]) = args[r].steps
               /\ Len(accs[r]) = args[r].steps
        /\ pc[r] \in {"loop", "accept"} =>
               /\ i[r] <= args[r].steps
               /\ ENABLED (Proposal(r) \/ Accept(r) \/ Return(r))

C14_Witness ==
    \E r \in Runs :
        /\ pc[r] = "done"
        /\ args[r].steps >= 2
        /\ ~accs[r][1]
        /\ Len(accs[r]) = args[r].steps

(* C15: a seeded chain returns the trace and the acceptance ratio it        *)
(* returns when it runs alone from the same seed, also when the steps of    *)
(* another chain are interleaved with its own.                              *)
C15_ChainsIndependent ==
    \A r \in Runs :
        (pc[r] = "done" /\ seedOf[r] >= 0) =>
            LET alone == run_chain(args[r].steps, args[r].paramrange,
                                   args[r].sigmaprop, args[r].D, args[r].P,
                                   NpSeed(seedOf[r]))
            IN  /\ alone.ok
                /\ result[r].samples = alone.samples
                /\ result[r].ar = alone.ar

(* C16: a step appends exactly one state to the trace, the candidate when   *)
(* accept returned True, a state equal to the previous entry otherwise, and *)
(* the counter grows by one exactly when accept returned True.              *)
C16_OneEntryPerStep ==
    [][\A r \in Runs :
          (AcceptStep(r) /\ pc'[r] = "loop") =>
              LET acc == LastOf(accs'[r])
              IN  /\ Len(accs'[r]) = Len(accs[r]) + 1
                  /\ samples'[r] =
                         Append(samples[r],
                                IF acc THEN newsamp[r] ELSE LastOf(samples[r]))
                  /\ count'[r] = IF acc THEN count[r] + 1 ELSE count[r]]_vars

C16_Witness ==
    \E r \in Runs :
        \E k \in 1..Len(accs[r]) :
            \E j \in 1..Len(accs[r]) :
                /\ accs[r][k]
                /\ samples[r][k + 1] = cands[r][k]
                /\ cands[r][k] # samples[r][k]
                /\ ~accs[r][j]
                /\ cands[r][j] # samples[r][j]
                /\ samples[r][j + 1] = samples[r][j]
                /\ Len(samples[r]) = Len(accs[r]) + 1
                /\ count[r] = CountTrue(accs[r])

Rep(n, x) == [j \in 1..n |-> x]

RECURSIVE NpIter(_, _)
NpIter(st, n) == IF n = 0 THEN st ELSE NpIter(NpNext(st), n - 1)

(* the acceptance draw of step k is taken: the step is complete, its        *)
(* candidate passed the bounds check and P(x') < P(x)                       *)
ChoiceDrawn(r, k) ==
    /\ k <= Len(accs[r])
    /\ StrictlyInside(cands[r][k], args[r].paramrange)
    /\ Peval(args[r].P, cands[r][k]) < Peval(args[r].P, samples[r][k])

RECURSIVE StepDraws(_, _)
StepDraws(r, k) ==
    IF k > Len(cands[r]) THEN <<>>
    ELSE Rep(args[r].D, "normal")
             \o (IF ChoiceDrawn(r, k) THEN <<"choice">> ELSE <<>>)
             \o StepDraws(r, k + 1)

(* C17: a run consumes the generator in a fixed order: the uniform draws of *)
(* the starting point, then per step D normal draws followed by one         *)
(* acceptance draw exactly when the candidate passed the bounds check and   *)
(* P(x') < P(x); the generator has advanced by exactly these draws.         *)
C17_DrawOrder ==
    \A r \in Runs :
        pc[r] \notin {"idle", "seeded"} =>
            /\ draws[r] =
                   Rep(Min(args[r].D, Len(args[r].paramrange)), "uniform")
                       \o StepDraws(r, 1)
            /\ (seedOf[r] >= 0 /\ (r = 1 => pc[2] = "idle")) =>
                   npstate = NpIter(NpSeed(seedOf[r]), Len(draws[r]))

C17_Witness ==
    \E r \in Runs :
        /\ pc[r] = "done"
        /\ args[r].D = 2
        /\ \E k \in 1..Len(accs[r]) : ChoiceDrawn(r, k)
        /\ \E j \in 1..Len(accs[r]) :
               ~StrictlyInside(cands[r][j], args[r].paramrange)
        /\ Len(draws[r]) = 7

(* run r is executing its call of proposal in this step *)
ProposalStep(r) == pc[r] = "loop" /\ pc'[r] = "accept"

(* C18: the candidate of a step is proposed from the last trace entry, and  *)
(* what the step records is decided by accept from the candidate and the    *)
(* last trace entry alone.                                                  *)
C18_MarkovStep ==
    [][\A r \in Runs :
          /\ ProposalStep(r) =>
                 newsamp'[r] =
                     proposal(LastOf(samples[r]), args[r].sigmaprop, args[r].D,
                              npstate).newsamp
          /\ (AcceptStep(r) /\ pc'[r] = "loop") =>
                 LET a == accept(newsamp[r], LastOf(samples[r]),
                                 args[r].paramrange, args[r].P, npstate)
                 IN  /\ LastOf(samples'[r]) = a.samp
                     /\ LastOf(accs'[r]) = a.acc]_vars

C18_Witness ==
    \E r \in Runs :
        /\ Len(accs[r]) >= 2
        /\ accs[r][1]
        /\ samples[r][2] # samples[r][1]
        /\ cands[r][2] # samples[r][2]
        /\ cands[r][2] # samples[r][1]
        /\ accs[r][2]
        /\ samples[r][3] = cands[r][2]

(* C19: the trace only grows, and an entry keeps the value it was recorded  *)
(* with through every later step of the run.                                *)
C19_TraceAppendOnly ==
    [][\A r \in Runs :
          /\ Len(samples'[r]) >= Len(samples[r])
          /\ Len(samples'[r]) <= Len(samples[r]) + 1
          /\ \A k \in 1..Len(samples[r]) : samples'[r][k] = samples[r][k]]_vars

C19_Witness ==
    \E r \in Runs :
        /\ pc[r] = "done"
        /\ Len(samples[r]) >= 3
        /\ samples[r][2] # samples[r][1]
        /\ samples[r][3] # samples[r][2]
        /\ result[r].samples = samples[r]

(* C20: proposal returns x' = x + eps, eps being D normal draws scaled by   *)
(* sigmaprop, and changes nothing but the generator: the current state, the *)
(* trace and the counter are as before.                                     *)
C20_ProposalFrame ==
    [][\A r \in Runs :
          ProposalStep(r) =>
              LET eps == normal(0, args[r].sigmaprop, args[r].D, npstate).v
              IN  /\ Len(newsamp'[r]) = args[r].D
                  /\ \A d \in 1..args[r].D :
                         newsamp'[r][d] = oldsamp[r][d] + eps[d]
                  /\ npstate' = NpIter(npstate, args[r].D)
                  /\ oldsamp' = oldsamp
                  /\ samples' = samples
                  /\ count' = count
                  /\ accs' = accs
                  /\ i' = i
                  /\ result' = result]_vars

C20_Witness ==
    \E r \in Runs :
        /\ pc[r] = "accept"
        /\ Len(accs[r]) >= 1
        /\ newsamp[r] # oldsamp[r]
        /\ LastOf(samples[r]) = oldsamp[r]
        /\ newsamp[r] = LastOf(cands[r])

(* C21: accept calls the density evaluator twice for a candidate that       *)
(* passes the bounds check, at x' and then at x (a call that raises is the  *)
(* last one), and not at all for a candidate that fails the check.          *)
C21_DensityEvaluations ==
    \A r \in Runs :
        /\ Len(evals[r]) = IF pc[r] = "accept" THEN Len(cands[r]) - 1
                           ELSE Len(cands[r])
        /\ \A k \in 1..Len(evals[r]) :
               IF ~StrictlyInside(cands[r][k], args[r].paramrange)
               THEN evals[r][k] = <<>>
               ELSE IF k <= Len(accs[r])
               THEN evals[r][k] = <<cands[r][k], samples[r][k]>>
               ELSE /\ err[r] = "EvaluatorFailure"
                    /\ evals[r][k] =
                           IF PFails(args[r].P, cands[r][k])
                           THEN <<cands[r][k]>>
                           ELSE <<cands[r][k], samples[r][k]>>

C21_Witness ==
    \E r \in Runs :
        /\ pc[r] = "done"
        /\ \E k \in 1..Len(accs[r]) :
               /\ evals[r][k] = <<cands[r][k], samples[r][k]>>
               /\ cands[r][k] # samples[r][k]
        /\ \E j \in 1..Len(accs[r]) :
               /\ evals[r][j] = <<>>
               /\ ~StrictlyInside(cands[r][j], args[r].paramrange)

(* the pending step of run r is between two points strictly inside the      *)
(* bounds at which P returns a positive density                             *)
PositivePair(r) ==
    /\ pc[r] = "accept"
    /\ StrictlyInside(newsamp[r], args[r].paramrange)
    /\ StrictlyInside(oldsamp[r], args[r].paramrange)
    /\ ~PFails(args[r].P, newsamp[r])
    /\ ~PFails(args[r].P, oldsamp[r])
    /\ Peval(args[r].P, newsamp[r]) > 0
    /\ Peval(args[r].P, oldsamp[r]) > 0

(* C22: detailed balance. For in-bounds x, x' of positive density the       *)
(* acceptance probability a(x -> x') of accept is 1 when P(x') >= P(x) and  *)
(* P(x')/P(x) otherwise, and P(x) a(x -> x') = P(x') a(x' -> x).            *)
C22_DetailedBalance ==
    \A r \in Runs :
        PositivePair(r) =>
            LET x    == oldsamp[r]
                xn   == newsamp[r]
                Px   == Peval(args[r].P, x)
                Pxn  == Peval(args[r].P, xn)
                fwd  == accept(xn, x, args[r].paramrange, args[r].P,
                               npstate).p
                back == accept(x, xn, args[r].paramrange, args[r].P,
                               npstate).p
            IN  /\ fwd = IF Pxn >= Px THEN <<1, 1>> ELSE <<Pxn, Px>>
                /\ Px * fwd[1] * back[2] = Pxn * back[1] * fwd[2]

C22_Witness ==
    \E r \in Runs :
        /\ PositivePair(r)
        /\ Peval(args[r].P, newsamp[r]) < Peval(args[r].P, oldsamp[r])
        /\ accept(newsamp[r], oldsamp[r], args[r].paramrange, args[r].P,
                  npstate).p[1] = Peval(args[r].P, newsamp[r])
        /\ accept(oldsamp[r], newsamp[r], args[r].paramrange, args[r].P,
                  npstate).p = <<1, 1>>

(* some component of x is exactly a limit of its dimension *)
OnBoundary(x, paramrange) ==
    \E d \in 1..Len(x) :
        x[d] = Low(paramrange, d) \/ x[d] = High(paramrange, d)

(* C25: the bounds check is strict on both sides. A candidate with a        *)
(* component equal to low[d] or high[d] is rejected, every state an         *)
(* accepted step puts in the trace is strictly inside the bounds, and a     *)
(* trace entry that is not is the initial state carried along.              *)
C25_StrictBounds ==
    \A r \in Runs :
        /\ \A k \in 1..Len(accs[r]) :
               /\ OnBoundary(cands[r][k], args[r].paramrange) => ~accs[r][k]
               /\ accs[r][k] =>
                      StrictlyInside(samples[r][k + 1], args[r].paramrange)
        /\ \A k \in 2..Len(samples[r]) :
               ~StrictlyInside(samples[r][k], args[r].paramrange) =>
                   /\ samples[r][k] = samples[r][1]
                   /\ \A j \in 1..(k - 1) : ~accs[r][j]

C25_Witness ==
    /\ \E r \in Runs :
           /\ pc[r] = "done"
           /\ args[r].P = "flat"
           /\ \E k \in 1..Len(accs[r]) :
                  /\ ~accs[r][k]
                  /\ ~Outside(cands[r][k], args[r].paramrange)
                  /\ \E d \in 1..Len(cands[r][k]) :
                         cands[r][k][d] = Low(args[r].paramrange, d)
    /\ \E r \in Runs :
           /\ pc[r] = "done"
           /\ ValidRange(args[r].paramrange)
           /\ OnBoundary(samples[r][1], args[r].paramrange)
           /\ \E k \in 1..Len(accs[r]) : accs[r][k]

(* what accept returns for the pending step of run r *)
Pending(r) ==
    accept(newsamp[r], oldsamp[r], args[r].paramrange, args[r].P, npstate)

(* C26: when accept reaches the random choice, prob = P(x')/P(x) has        *)
(* P(x) > 0 and 0 <= prob < 1, so (prob, 1 - prob) is a probability         *)
(* distribution.                                                            *)
C26_ValidProbability ==
    \A r \in Runs :
        (pc[r] = "accept" /\ Pending(r).draws # <<>>) =>
            /\ Pending(r).p = <<Peval(args[r].P, newsamp[r]),
                                Peval(args[r].P, oldsamp[r])>>
            /\ Pending(r).p[2] > 0
            /\ 0 <= Pending(r).p[1]
            /\ Pending(r).p[1] < Pending(r).p[2]
            /\ 0 < Pending(r).p[2] - Pending(r).p[1]
            /\ Pending(r).p[2] - Pending(r).p[1] <= Pending(r).p[2]

C26_Witness ==
    \E r \in Runs :
        /\ pc[r] = "accept"
        /\ Pending(r).draws = <<"choice">>
        /\ 0 < Pending(r).p[1]
        /\ Pending(r).p[1] < Pending(r).p[2]

(* the loop invariant of run_chain for run r *)
LoopInv(r) ==
    pc[r] \in {"loop", "accept", "done"} =>
        /\ i[r] \in 0..args[r].steps
        /\ Len(samples[r]) = i[r] + 1
        /\ 0 <= count[r]
        /\ count[r] <= i[r]

(* C27: after i steps the trace holds i + 1 entries and 0 <= count <= i;    *)
(* count never decreases and grows by at most 1 per step; a returned        *)
(* acceptance ratio (N >= 1) is in [0, 1].                                  *)
C27_LoopInvariant ==
    [][\A r \in Runs :
           /\ LoopInv(r)'
           /\ count'[r] >= count[r]
           /\ count'[r] <= count[r] + 1
           /\ i'[r] = i[r] => count'[r] = count[r]
           /\ pc'[r] = "done" =>
                  /\ args'[r].steps >= 1
                  /\ 0 <= result'[r].ar[1]
                  /\ result'[r].ar[1] <= result'[r].ar[2]
                  /\ result'[r].ar[2] > 0]_vars

C27_Witness ==
    \E r \in Runs :
        /\ pc[r] = "done"
        /\ i[r] = MaxSteps
        /\ Len(samples[r]) = MaxSteps + 1
        /\ count[r] > 0
        /\ count[r] < i[r]
        /\ result[r].ar = <<count[r], MaxSteps>>

(* C28: with steps = 0 run_chain draws the initial state, executes no      *)
(* step, and fails with a division by zero at ar = 1.*count/steps: it       *)
(* returns neither a trace nor a ratio.                                     *)
C28_ZeroSteps ==
    \A r \in Runs :
        (pc[r] \notin {"idle", "seeded"} /\ args[r].steps = 0
            /\ err[r] # "IndexError") =>
            /\ pc[r] \in {"loop", "error"}
            /\ Len(samples[r]) = 1
            /\ draws[r] = Rep(args[r].D, "uniform")
            /\ cands[r] = <<>>
            /\ accs[r] = <<>>
            /\ evals[r] = <<>>
            /\ result[r] = NoResult
            /\ pc[r] = "loop" => ENABLED Return(r)
            /\ pc[r] = "error" => err[r] = "ZeroDivisionError in run_chain"

C28_Witness ==
    \E r \in Runs :
        /\ args[r].steps = 0
        /\ args[r].D = 2
        /\ pc[r] = "error"
        /\ err[r] = "ZeroDivisionError in run_chain"
        /\ Len(samples[r]) = 1
        /\ draws[r] = <<"uniform", "uniform">>
        /\ result[r] = NoResult

(* run r has started its chain in a range with low = high in one of its    *)
(* D dimensions                                                             *)
Degenerate(r) ==
    /\ pc[r] \in {"loop", "accept", "done", "error"}
    /\ err[r] # "IndexError"
    /\ \E d \in 1..args[r].D :
           Low(args[r].paramrange, d) = High(args[r].paramrange, d)

(* C29: if low[d] = high[d] for a dimension d, every candidate is rejected, *)
(* every trace entry equals the initial state, P is never called and the    *)
(* acceptance ratio is 0.                                                   *)
C29_DegenerateRange ==
    \A r \in Runs :
        Degenerate(r) =>
            /\ \A k \in 1..Len(accs[r]) : ~accs[r][k]
            /\ \A k \in 1..Len(samples[r]) : samples[r][k] = samples[r][1]
            /\ \A k \in 1..Len(evals[r]) : evals[r][k] = <<>>
            /\ count[r] = 0
            /\ err[r] \in {"none", "ZeroDivisionError in run_chain"}
            /\ pc[r] = "done" => result[r].ar = <<0, args[r].steps>>

C29_Witness ==
    \E r \in Runs :
        /\ Degenerate(r)
        /\ pc[r] = "done"
        /\ args[r].D = 2
        /\ args[r].steps = MaxSteps
        /\ Len(accs[r]) = MaxSteps
        /\ cands[r][1] # samples[r][1]
        /\ result[r].samples = Rep(MaxSteps + 1, samples[r][1])
        /\ result[r].ar = <<0, MaxSteps>>

(* run r has started a chain with step size 0 from a point strictly inside *)
(* the bounds                                                               *)
StandingStill(r) ==
    /\ pc[r] \in {"loop", "accept", "done", "error"}
    /\ err[r] # "IndexError"
    /\ args[r].sigmaprop = 0
    /\ StrictlyInside(samples[r][1], args[r].paramrange)

(* C30: a candidate equal in value to the current state and strictly inside *)
(* the bounds takes the P(x') >= P(x) branch and is counted as accepted;    *)
(* with step size 0 and an interior start every trace entry equals the      *)
(* initial state while the acceptance ratio is 1.                           *)
C30_NullMoveAccepted ==
    \A r \in Runs :
        /\ \A k \in 1..Len(accs[r]) :
               (cands[r][k] = samples[r][k]
                   /\ StrictlyInside(cands[r][k], args[r].paramrange)) =>
                   /\ accs[r][k]
                   /\ samples[r][k + 1] = samples[r][k]
        /\ StandingStill(r) =>
               /\ \A k \in 1..Len(cands[r]) : cands[r][k] = samples[r][1]
               /\ \A k \in 1..Len(accs[r]) : accs[r][k]
               /\ \A k \in 1..Len(samples[r]) : samples[r][k] = samples[r][1]
               /\ count[r] = Len(accs[r])
               /\ \A k \in 1..Len(draws[r]) : draws[r][k] # "choice"
               /\ err[r] # "ZeroDivisionError in accept"
               /\ pc[r] = "done" =>
                      result[r].ar = <<args[r].steps, args[r].steps>>

C30_Witness ==
    \E r \in Runs :
        /\ StandingStill(r)
        /\ pc[r] = "done"
        /\ args[r].steps = MaxSteps
        /\ args[r].P = "gauss"
        /\ result[r].samples = Rep(MaxSteps + 1, samples[r][1])
        /\ result[r].ar = <<MaxSteps, MaxSteps>>

(* ==================== properties of the toy generator =================== *)
(* an integer of 0..m-1 in limbs *)
InWord(w) == w[1] \in 0..(Limb - 1) /\ w[2] \in 0..(Limb - 1)

(* x + y modulo m *)
AddW(x, y) ==
    LET lo == x[2] + y[2]
        hi == x[1] + y[1] + (lo \div Limb)
    IN  <<hi % Limb, lo % Limb>>

(* k * w modulo m for a multiplier k of at most 15 bits *)
TimesSmall(k, w) ==
    LET lo == k * w[2]
    IN  <<(((k * w[1]) % Limb) + (lo \div Limb)) % Limb, lo % Limb>>

(* byte j of a, j = 0 the lowest *)
ByteOfA(j) == (rng_a \div (256 ^ j)) % 256

(* (a*x + b) mod m, a taken byte by byte from the highest one down *)
Lcg(cur) ==
    LET t3 == TimesSmall(ByteOfA(3), cur)
        t2 == AddW(TimesSmall(256, t3), TimesSmall(ByteOfA(2), cur))
        t1 == AddW(TimesSmall(256, t2), TimesSmall(ByteOfA(1), cur))
        t0 == AddW(TimesSmall(256, t1), TimesSmall(ByteOfA(0), cur))
    IN  AddW(t0, <<0, rng_b>>)

(* C23: each call of rng replaces the state by (a*current + b) mod m and    *)
(* returns current/m of the new state; after any calls from a seed in       *)
(* 0..m-1 the state is in 0..m-1 and every returned value is in [0, 1).     *)
C23_LcgStep ==
    current # Unset =>
        /\ InWord(current)
        /\ current = IF random_numbers = <<>> THEN rng_seed
                     ELSE random_numbers[Len(random_numbers)]
        /\ \A j \in 1..Len(random_numbers) :
               /\ InWord(random_numbers[j])
               /\ random_numbers[j] =
                      Lcg(IF j = 1 THEN rng_seed ELSE random_numbers[j - 1])

(* the first three values from the notebook's seed 101:                     *)
(* 4080869690/m, 2650997227/m, 1486854984/m                                 *)
C23_Witness ==
    /\ rng_seed = <<0, NotebookSeed>>
    /\ random_numbers = <<<<62269, 8506>>, <<40451, 491>>, <<22687, 39752>>>>
    /\ current = <<22687, 39752>>

(* C24: assigning the same seed to rng.current and calling rng k times      *)
(* gives the same k values each time, whatever was called before the        *)
(* assignment.                                                              *)
C24_RngReproducible ==
    (rng_seed # Unset /\ earlier.seed = rng_seed) =>
        \A j \in 1..Min(Len(random_numbers), Len(earlier.values)) :
            random_numbers[j] = earlier.values[j]

C24_Witness ==
    /\ rng_seed # Unset
    /\ earlier.seed = rng_seed
    /\ Len(earlier.values) = MaxCalls
    /\ Len(random_numbers) = MaxCalls - 1
    /\ \A j \in 1..(MaxCalls - 1) : random_numbers[j] = earlier.values[j]
    /\ random_numbers[1] # random_numbers[2]

====
